---- MODULE Spec2Model ----
(***************************************************************************)
(* Model of src/src/write_batch.rs: WriteBatch (an ordered list of put and *)
(* delete entries with a base sequence number), its size computation, its  *)
(* encoder, its iterator and its replay into a memtable.                   *)
(*                                                                         *)
(* Vec capacity (with_capacity, and clear keeping the allocation) is not   *)
(* part of the state: no operation of the file reads it.                   *)
(***************************************************************************)
EXTENDS Integers, Sequences, FiniteSets, TLC

VARIABLES entries, seq, calls, last, iters, overflow_checks, status

\* entries, seq     the fields of the WriteBatch
\* calls            the put and delete calls made since the last clear
\* last             the last call made, with its arguments and what it returned
\* iters            the WriteBatchIter values alive, with what each has yielded
\* overflow_checks  whether the build panics on integer overflow (it wraps
\*                  otherwise)
\* status           "running", or "panicked" once a call has panicked
vars == <<entries, seq, calls, last, iters, overflow_checks, status>>

(***************************************************************************)
(* Bounds of the model.                                                    *)
(***************************************************************************)
\* Most entries a batch is given by the calls drawn from the input sets (the
\* calls of the unit test, and of SpecAppend, have bounds of their own).
MaxEntries == 2
\* Most entries a batch is given in SpecAppend.
MaxAppendEntries == 3
\* Width in bits of the model's SequenceNumber (the source's width is set in
\* types.rs; every formula below is stated for the width as a parameter).
SeqBits == 3
\* Length of the long key / long value: the smallest length whose varint
\* takes two bytes.
LongLen == 128
\* Number of iterators that may be alive at once.
NumIters == 2

(***************************************************************************)
(* Byte strings, Option, ValueType, SequenceNumber.                        *)
(***************************************************************************)
RECURSIVE Pow2(_)
Pow2(n) == IF n = 0 THEN 1 ELSE 2 * Pow2(n - 1)

SeqModulus == Pow2(SeqBits)
MaxSeqNum == SeqModulus - 1
SequenceNumber == 0 .. MaxSeqNum

\* Option<&[u8]>: None and Some(v) are distinct also when v is empty.
None == [some |-> FALSE, v |-> <<>>]
Some(v) == [some |-> TRUE, v |-> v]

\* BatchEntry { key, val }
BatchEntry(k, val) == [key |-> k, val |-> val]

\* ValueType as u8
ValueTypeAsU8(t) == IF t = "TypeValue" THEN 1 ELSE 0

LongBytes == [i \in 1 .. LongLen |-> 120]
Keys == { <<>>, <<97>>, LongBytes }
Vals == { <<>>, <<100, 101>>, LongBytes }
ShortKeys == { <<>>, <<97>> }
ShortVals == { <<>>, <<100, 101>> }
SeqBases == { 1, MaxSeqNum - 1, MaxSeqNum }

(***************************************************************************)
(* integer_encoding::VarInt for usize: base-128 little-endian groups, the  *)
(* high bit set on every byte but the last.                                *)
(***************************************************************************)
RECURSIVE required_space(_)
required_space(n) == IF n < 128 THEN 1 ELSE 1 + required_space(n \div 128)

RECURSIVE varint_bytes(_)
varint_bytes(n) ==
    IF n < 128 THEN <<n>>
    ELSE <<128 + (n % 128)>> \o varint_bytes(n \div 128)

(***************************************************************************)
(* WriteBatch: construction and mutation.                                  *)
(***************************************************************************)
\* WriteBatch::new / WriteBatch::with_capacity: no entries, the given seq.
new(s) == [entries |-> <<>>, seq |-> s]

\* An iterator slot that holds no iterator.
NoIter == [live |-> FALSE, ix |-> 0, yielded |-> <<>>, done |-> FALSE]

NoLiveIter == \A i \in 1 .. NumIters : ~iters[i].live

Init ==
    /\ \E s \in SeqBases :
          /\ entries = new(s).entries
          /\ seq = new(s).seq
    /\ calls = <<>>
    /\ last = [op |-> "new"]
    /\ iters = [i \in 1 .. NumIters |-> NoIter]
    /\ overflow_checks \in BOOLEAN
    /\ status = "running"

\* put replacing the first entry that has the same key, if there is one.
put_replaces_same_key(k, v) ==
    /\ status = "running"
    /\ NoLiveIter
    /\ entries' =
          IF \E i \in 1 .. Len(entries) : entries[i].key = k
          THEN LET i == CHOOSE j \in 1 .. Len(entries) : entries[j].key = k
               IN  [entries EXCEPT ![i] = BatchEntry(k, Some(v))]
          ELSE Append(entries, BatchEntry(k, Some(v)))
    /\ calls' = Append(calls, [op |-> "put", k |-> k, v |-> v])
    /\ last' = [op |-> "put"]
    /\ UNCHANGED <<seq, iters, overflow_checks, status>>

\* fn put(&mut self, k, v): push BatchEntry { key: k, val: Some(v) }
put(k, v) ==
    /\ status = "running"
    /\ NoLiveIter
    /\ entries' = Append(entries, BatchEntry(k, Some(v)))
    /\ calls' = Append(calls, [op |-> "put", k |-> k, v |-> v])
    /\ last' = [op |-> "put"]
    /\ UNCHANGED <<seq, iters, overflow_checks, status>>

\* fn delete(&mut self, k): push BatchEntry { key: k, val: None }
delete(k) ==
    /\ status = "running"
    /\ NoLiveIter
    /\ entries' = Append(entries, BatchEntry(k, None))
    /\ calls' = Append(calls, [op |-> "delete", k |-> k, v |-> <<>>])
    /\ last' = [op |-> "delete"]
    /\ UNCHANGED <<seq, iters, overflow_checks, status>>

\* clear dropping every entry but the first.
clear_keeps_first ==
    /\ status = "running"
    /\ NoLiveIter
    /\ entries' = IF entries = <<>> THEN <<>> ELSE <<entries[1]>>
    /\ calls' = <<>>
    /\ last' = [op |-> "clear", dropped |-> Len(entries)]
    /\ UNCHANGED <<seq, iters, overflow_checks, status>>

\* clear that also resets the base sequence number.
clear_resets_seq ==
    /\ status = "running"
    /\ NoLiveIter
    /\ entries' = <<>>
    /\ seq' = 0
    /\ calls' = <<>>
    /\ last' = [op |-> "clear", dropped |-> Len(entries)]
    /\ UNCHANGED <<iters, overflow_checks, status>>

\* fn clear(&mut self): self.entries.clear(); last.dropped is the number of
\* entries the batch held when clear was called.
clear ==
    /\ status = "running"
    /\ NoLiveIter
    /\ entries' = <<>>
    /\ calls' = <<>>
    /\ last' = [op |-> "clear", dropped |-> Len(entries)]
    /\ UNCHANGED <<seq, iters, overflow_checks, status>>

(***************************************************************************)
(* WriteBatch::byte_size                                                   *)
(***************************************************************************)
\* byte_size_entry without the length byte of a delete entry.
byte_size_entry_no_delete_len(e) ==
    (Len(e.key) + required_space(Len(e.key)))
    + (IF e.val.some THEN Len(e.val.v) + required_space(Len(e.val.v)) ELSE 0)
    + 1

\* byte_size_entry counting one byte for every length prefix.
byte_size_entry_one_byte_lengths(e) ==
    (Len(e.key) + 1)
    + (IF e.val.some THEN Len(e.val.v) + 1 ELSE 1)
    + 1

\* The body of the for loop: what one entry adds to size.
byte_size_entry(e) ==
    (Len(e.key) + required_space(Len(e.key)))
    + (IF e.val.some THEN Len(e.val.v) + required_space(Len(e.val.v)) ELSE 1)
    + 1

RECURSIVE byte_size_loop(_, _, _)
byte_size_loop(es, i, size) ==
    IF i > Len(es) THEN size
    ELSE byte_size_loop(es, i + 1, size + byte_size_entry(es[i]))

byte_size(es) == byte_size_loop(es, 1, 0)

(***************************************************************************)
(* WriteBatchIter                                                          *)
(***************************************************************************)
NoItem == [some |-> FALSE, key |-> <<>>, val |-> None]
SomeItem(k, val) == [some |-> TRUE, key |-> k, val |-> val]

\* WriteBatch::iter: the cursor of a fresh iterator.
iter == 0

\* next reading the entries from the last one back.
next_reversed(es, ix) ==
    IF ix < Len(es)
    THEN [ix |-> ix + 1,
          item |-> SomeItem(es[Len(es) - ix].key, es[Len(es) - ix].val)]
    ELSE [ix |-> ix, item |-> NoItem]

\* next advancing the cursor before it looks at the length.
next_always_advances(es, ix) ==
    IF ix < Len(es)
    THEN [ix |-> ix + 1, item |-> SomeItem(es[ix + 1].key, es[ix + 1].val)]
    ELSE [ix |-> ix + 1, item |-> NoItem]

\* WriteBatchIter::next on a batch with entries es and cursor ix (0-based, as
\* in the source; es is indexed from 1): the new cursor and the item.
next(es, ix) ==
    IF ix < Len(es)
    THEN [ix |-> ix + 1, item |-> SomeItem(es[ix + 1].key, es[ix + 1].val)]
    ELSE [ix |-> ix, item |-> NoItem]

(***************************************************************************)
(* WriteBatch::encode                                                      *)
(***************************************************************************)
Zeros(n) == [i \in 1 .. n |-> 0]

\* Vec::resize(n, 0): truncate to n, or pad with zeros up to n.
Resize(buf, n) ==
    IF n <= Len(buf) THEN SubSeq(buf, 1, n) ELSE buf \o Zeros(n - Len(buf))

\* n.encode_var(&mut buf[ix..ix + req]); ix += the number of bytes written.
\* Taking the slice fails when it leaves the buffer, and encode_var fails
\* when the slice is shorter than the varint.
encode_var_at(st, n, req) ==
    LET bytes == varint_bytes(n)
    IN  IF ~st.ok THEN st
        ELSE IF st.ix + req > Len(st.buf) \/ Len(bytes) > req
        THEN [st EXCEPT !.ok = FALSE]
        ELSE [st EXCEPT
                !.buf = [i \in 1 .. Len(st.buf) |->
                            IF i > st.ix /\ i <= st.ix + Len(bytes)
                            THEN bytes[i - st.ix] ELSE st.buf[i]],
                !.ix = st.ix + Len(bytes)]

\* encode_tag choosing the tag by whether there are value bytes.
encode_tag_by_value_bytes(st, val) ==
    [st EXCEPT
        !.buf = Append(st.buf, IF val.some /\ val.v # <<>>
                               THEN ValueTypeAsU8("TypeValue")
                               ELSE ValueTypeAsU8("TypeDeletion")),
        !.ix = st.ix + 1]

\* buf.push(tag); ix += 1
encode_tag(st, val) ==
    [st EXCEPT
        !.buf = Append(st.buf, IF val.some THEN ValueTypeAsU8("TypeValue")
                                           ELSE ValueTypeAsU8("TypeDeletion")),
        !.ix = st.ix + 1]

\* encode_len resizing to req instead of ix + req.
encode_len_resize_to_req(st, len, req) ==
    encode_var_at([st EXCEPT !.buf = Resize(st.buf, req)], len, req)

\* buf.resize(ix + req, 0); ix += len.encode_var(&mut buf[ix..ix + req])
encode_len(st, len, req) ==
    encode_var_at([st EXCEPT !.buf = Resize(st.buf, st.ix + req)], len, req)

\* encode_slice that appends the bytes and leaves ix where it was.
encode_slice_no_advance(st, bytes) ==
    [st EXCEPT !.buf = st.buf \o bytes]

\* buf.extend_from_slice(bytes); ix += bytes.len()
encode_slice(st, bytes) ==
    [st EXCEPT !.buf = st.buf \o bytes, !.ix = st.ix + Len(bytes)]

\* The body of the for loop of encode, for the item (k, val), as the states
\* it goes through: at the start of the entry, after the tag, after the key
\* length, after the key, after the value length, after the value.
encode_entry_steps(st, k, val) ==
    LET v_ == IF val.some THEN val.v ELSE <<>>
        req2 == IF val.some THEN required_space(Len(val.v)) ELSE required_space(0)
        s1 == encode_tag(st, val)
        s2 == encode_len(s1, Len(k), required_space(Len(k)))
        s3 == encode_slice(s2, k)
        s4 == encode_len(s3, Len(v_), req2)
    IN  <<st, s1, s2, s3, s4, encode_slice(s4, v_)>>

\* The body of the for loop of encode, for the item (k, val).
encode_entry(st, k, val) == encode_entry_steps(st, k, val)[6]

\* The states the for loop of encode goes through, entry by entry.
RECURSIVE encode_trace(_, _, _)
encode_trace(es, ix, st) ==
    LET r == next(es, ix)
    IN  IF ~r.item.some \/ ~st.ok THEN <<>>
        ELSE LET steps == encode_entry_steps(st, r.item.key, r.item.val)
             IN  <<steps>> \o encode_trace(es, r.ix, steps[6])

\* for (k, v) in self.iter() { ... } of encode
RECURSIVE encode_loop(_, _, _)
encode_loop(es, ix, st) ==
    LET r == next(es, ix)
    IN  IF ~r.item.some \/ ~st.ok THEN st
        ELSE encode_loop(es, r.ix, encode_entry(st, r.item.key, r.item.val))

\* fn encode(&self) -> Vec<u8>: [buf, ix, ok]; ok = FALSE when it panicked.
encode(es) == encode_loop(es, iter, [buf |-> <<>>, ix |-> 0, ok |-> TRUE])

(***************************************************************************)
(* Calls of the read-only operations.                                      *)
(***************************************************************************)
CallByteSize ==
    /\ status = "running"
    /\ last' = [op |-> "byte_size", val |-> byte_size(entries)]
    /\ UNCHANGED <<entries, seq, calls, iters, overflow_checks, status>>

CallEncode ==
    /\ status = "running"
    /\ LET r == encode(entries)
       IN  /\ last' = [op |-> "encode", val |-> r.buf, ok |-> r.ok]
           /\ status' = IF r.ok THEN status ELSE "panicked"
    /\ UNCHANGED <<entries, seq, calls, iters, overflow_checks>>

NextEncode ==
    \/ \E k \in Keys, v \in Vals : Len(entries) < MaxEntries /\ put(k, v)
    \/ \E k \in Keys : Len(entries) < MaxEntries /\ delete(k)
    \/ clear
    \/ CallByteSize
    \/ CallEncode

Spec == Init /\ [][NextEncode]_vars

(***************************************************************************)
(* WriteBatch::insert_into_memtable                                        *)
(***************************************************************************)
\* MemTable::add(seq, t, key, value): the memtable is the list of the
\* insertions made into it, in the order they were made.
mt_add(m, s, t, k, v) == Append(m, [seq |-> s, t |-> t, key |-> k, val |-> v])

\* The memtables a caller passes: an empty one, and one that holds a put.
StoreInits ==
    { <<>>, mt_add(<<>>, 0, "TypeValue", <<97>>, <<100, 101>>) }

\* sequence_num_incr left out: every entry gets the base sequence number.
sequence_num_incr_missing(st, oc) == st

\* sequence_num += 1 on the unsigned fixed-width SequenceNumber: past the
\* largest value it panics in a build with overflow checks and wraps to 0
\* in a build without.
sequence_num_incr(st, oc) ==
    IF st.sequence_num < MaxSeqNum
    THEN [st EXCEPT !.sequence_num = st.sequence_num + 1]
    ELSE IF oc THEN [st EXCEPT !.ok = FALSE]
    ELSE [st EXCEPT !.sequence_num = 0]

\* replay_entry adding a delete entry as a Value with an empty value.
replay_entry_delete_as_value(st, k, val, oc) ==
    LET added ==
            IF val.some
            THEN mt_add(st.mt, st.sequence_num, "TypeValue", k, val.v)
            ELSE mt_add(st.mt, st.sequence_num, "TypeValue", k, <<>>)
    IN  sequence_num_incr([st EXCEPT !.mt = added], oc)

\* The body of the for loop of insert_into_memtable, for the item (k, val).
replay_entry(st, k, val, oc) ==
    LET added ==
            IF val.some
            THEN mt_add(st.mt, st.sequence_num, "TypeValue", k, val.v)
            ELSE mt_add(st.mt, st.sequence_num, "TypeDeletion", k, <<>>)
    IN  sequence_num_incr([st EXCEPT !.mt = added], oc)

\* replay_loop walking the entries with a loop of its own, from the last one.
RECURSIVE replay_loop_reversed(_, _, _, _)
replay_loop_reversed(es, ix, st, oc) ==
    IF ix >= Len(es) \/ ~st.ok THEN st
    ELSE LET e == es[Len(es) - ix]
         IN  replay_loop_reversed(es, ix + 1, replay_entry(st, e.key, e.val, oc), oc)

\* for (k, v) in self.iter() { ... } of insert_into_memtable
RECURSIVE replay_loop(_, _, _, _)
replay_loop(es, ix, st, oc) ==
    LET r == next(es, ix)
    IN  IF ~r.item.some \/ ~st.ok THEN st
        ELSE replay_loop(es, r.ix, replay_entry(st, r.item.key, r.item.val, oc), oc)

\* fn insert_into_memtable(&self, mt): [mt, sequence_num, ok] after the call
\* on a batch with entries es and base s, a memtable m and overflow checks oc;
\* ok = FALSE when it panicked.
insert_into_memtable(es, s, m, oc) ==
    replay_loop(es, iter, [mt |-> m, sequence_num |-> s, ok |-> TRUE], oc)

CallInsertIntoMemtable ==
    /\ status = "running"
    /\ \E m0 \in StoreInits :
          LET r == insert_into_memtable(entries, seq, m0, overflow_checks)
          IN  /\ last' = [op |-> "insert_into_memtable", mt0 |-> m0,
                          mt |-> r.mt, ok |-> r.ok]
              /\ status' = IF r.ok THEN status ELSE "panicked"
    /\ UNCHANGED <<entries, seq, calls, iters, overflow_checks>>

NextReplay ==
    \/ \E k \in ShortKeys, v \in ShortVals : Len(entries) < MaxEntries /\ put(k, v)
    \/ \E k \in ShortKeys : Len(entries) < MaxEntries /\ delete(k)
    \/ clear
    \/ CallEncode
    \/ CallInsertIntoMemtable

SpecReplay == Init /\ [][NextReplay]_vars

(***************************************************************************)
(* Iterators held by the caller.  An iterator borrows the batch, so put,   *)
(* delete and clear (&mut self) wait until no iterator is alive.           *)
(***************************************************************************)
\* let it = batch.iter(), kept in the first free slot
CallIter(i) ==
    /\ status = "running"
    /\ ~iters[i].live
    /\ \A j \in 1 .. (i - 1) : iters[j].live
    /\ iters' = [iters EXCEPT ![i] =
                    [live |-> TRUE, ix |-> iter, yielded |-> <<>>, done |-> FALSE]]
    /\ last' = [op |-> "iter"]
    /\ UNCHANGED <<entries, seq, calls, overflow_checks, status>>

\* it.next()
CallNext(i) ==
    /\ status = "running"
    /\ iters[i].live
    /\ LET r == next(entries, iters[i].ix)
       IN  /\ iters' = [iters EXCEPT ![i] =
                          [live |-> TRUE,
                           ix |-> r.ix,
                           yielded |-> IF r.item.some
                                       THEN Append(iters[i].yielded, r.item)
                                       ELSE iters[i].yielded,
                           done |-> iters[i].done \/ ~r.item.some]]
           /\ last' = [op |-> "next", item |-> r.item]
    /\ UNCHANGED <<entries, seq, calls, overflow_checks, status>>

\* drop(it)
DropIter(i) ==
    /\ status = "running"
    /\ iters[i].live
    /\ iters' = [iters EXCEPT ![i] = NoIter]
    /\ last' = [op |-> "drop"]
    /\ UNCHANGED <<entries, seq, calls, overflow_checks, status>>

NextIter ==
    \/ \E k \in ShortKeys, v \in ShortVals : Len(entries) < MaxEntries /\ put(k, v)
    \/ \E k \in ShortKeys : Len(entries) < MaxEntries /\ delete(k)
    \/ clear
    \/ \E i \in 1 .. NumIters : CallIter(i)
    \/ \E i \in 1 .. NumIters : CallNext(i)
    \/ \E i \in 1 .. NumIters : DropIter(i)

SpecIter == Init /\ [][NextIter]_vars

(***************************************************************************)
(* The mutating calls alone, on batches of up to MaxAppendEntries entries. *)
(***************************************************************************)
NextAppend ==
    \/ \E k \in ShortKeys, v \in ShortVals :
          Len(entries) < MaxAppendEntries /\ put(k, v)
    \/ \E k \in ShortKeys : Len(entries) < MaxAppendEntries /\ delete(k)
    \/ clear

SpecAppend == Init /\ [][NextAppend]_vars

(***************************************************************************)
(* Every call of the file, iterators included.                             *)
(***************************************************************************)
NextAll ==
    \/ NextIter
    \/ CallByteSize
    \/ CallEncode
    \/ CallInsertIntoMemtable

SpecAll == Init /\ [][NextAll]_vars

(***************************************************************************)
(* test_write_batch: the batch the unit test builds.                       *)
(***************************************************************************)
\* let entries = [("abc", "def"), ("123", "456"), ("xxx", "yyy"),
\*                ("zzz", ""), ("010", "")], as bytes.
TestEntries ==
    << [k |-> <<97, 98, 99>>,    v |-> <<100, 101, 102>>],
       [k |-> <<49, 50, 51>>,    v |-> <<52, 53, 54>>],
       [k |-> <<120, 120, 120>>, v |-> <<121, 121, 121>>],
       [k |-> <<122, 122, 122>>, v |-> <<>>],
       [k |-> <<48, 49, 48>>,    v |-> <<>>] >>

\* The call the test's loop makes for a fixture pair: put when the value is
\* not empty, delete otherwise.
TestCall(e) ==
    IF e.v # <<>> THEN [op |-> "put", k |-> e.k, v |-> e.v]
    ELSE [op |-> "delete", k |-> e.k, v |-> <<>>]

\* One pass of the test's for loop, on a batch that holds the fixture's
\* earlier pairs and nothing else.
TestStep ==
    /\ Len(calls) < Len(TestEntries)
    /\ \A i \in 1 .. Len(calls) : calls[i] = TestCall(TestEntries[i])
    /\ LET e == TestEntries[Len(calls) + 1]
       IN  IF e.v # <<>> THEN put(e.k, e.v) ELSE delete(e.k)

NextTest ==
    \/ NextEncode
    \/ TestStep

SpecTest == Init /\ [][NextTest]_vars

(***************************************************************************)
(* Properties of byte_size and encode.                                     *)
(***************************************************************************)
\* C1: whenever byte_size() or encode() has just returned, the size is
\* exactly the length of the encoded buffer of the same batch state: the
\* returned size equals Len(encode().buf), and the returned buffer's length
\* equals byte_size().
C1_ByteSizeIsEncodedLength ==
    /\ last.op = "byte_size" =>
          LET r == encode(entries) IN r.ok /\ last.val = Len(r.buf)
    /\ last.op = "encode" =>
          last.ok /\ Len(last.val) = byte_size(entries)

\* A batch of two entries, a delete of the empty key and a put with a
\* two-byte length varint, has been encoded.
C1_Witness ==
    /\ last.op = "encode"
    /\ Len(entries) = 2
    /\ \E i \in 1 .. 2 : ~entries[i].val.some /\ entries[i].key = <<>>
    /\ \E i \in 1 .. 2 : entries[i].val.some /\ Len(entries[i].val.v) >= 128
    /\ Len(last.val) > 128

\* The record the grammar gives the call c: the tag byte (1 for a put, 0 for
\* a delete), the varint of the key length, the key, the varint of the value
\* length (of 0 for a delete) and the value (nothing for a delete).
ExpectedRecord(c) ==
    IF c.op = "put"
    THEN <<1>> \o varint_bytes(Len(c.k)) \o c.k \o varint_bytes(Len(c.v)) \o c.v
    ELSE <<0>> \o varint_bytes(Len(c.k)) \o c.k \o varint_bytes(0)

RECURSIVE ExpectedEncoding(_)
ExpectedEncoding(cs) ==
    IF cs = <<>> THEN <<>>
    ELSE ExpectedRecord(Head(cs)) \o ExpectedEncoding(Tail(cs))

\* C5: encode() returns exactly the concatenation of the records of the put
\* and delete calls since the last clear, in call order, each record being
\* tag, key length, key, value length, value; the empty batch encodes to the
\* empty buffer.
C5_EncodeIsConcatenationOfRecords ==
    last.op = "encode" =>
        /\ last.ok
        /\ last.val = ExpectedEncoding(calls)
        /\ entries = <<>> => last.val = <<>>

\* A batch holding a put with a long key followed by a delete has been
\* encoded: the second record follows a record with a two-byte length.
C5_Witness ==
    /\ last.op = "encode"
    /\ Len(calls) = 2
    /\ calls[1].op = "put" /\ Len(calls[1].k) >= 128 /\ calls[1].v = <<100, 101>>
    /\ calls[2].op = "delete" /\ calls[2].k = <<97>>
    /\ Len(last.val) = Len(calls[1].k) + 10

(***************************************************************************)
(* Properties of the iterator.                                             *)
(***************************************************************************)
\* The pair an iterator yields for the call c.
ExpectedPair(c) == SomeItem(c.k, IF c.op = "put" THEN Some(c.v) ELSE None)

\* C4: an iterator started on the batch has yielded, so far, the pairs of the
\* first calls made since the last clear, in call order ((k, Some(v)) for a
\* put, (k, None) for a delete), and once it has returned None it has yielded
\* one pair per call.
C4_IterYieldsCallsInOrder ==
    \A i \in 1 .. NumIters :
        iters[i].live =>
            /\ Len(iters[i].yielded) <= Len(calls)
            /\ \A j \in 1 .. Len(iters[i].yielded) :
                  iters[i].yielded[j] = ExpectedPair(calls[j])
            /\ iters[i].done => Len(iters[i].yielded) = Len(calls)

\* An iterator over a batch of a put and a delete of different keys has
\* yielded both pairs and then returned None.
C4_Witness ==
    /\ iters[1].live /\ iters[1].done
    /\ last.op = "next" /\ ~last.item.some
    /\ Len(calls) = 2
    /\ calls[1].op = "put" /\ calls[2].op = "delete"
    /\ calls[1].k # calls[2].k
    /\ Len(iters[1].yielded) = 2

(***************************************************************************)
(* Properties of insert_into_memtable.                                     *)
(***************************************************************************)
Replayed == last.op = "insert_into_memtable"

\* The insertions the last insert_into_memtable call issued, in order.
Issued == SubSeq(last.mt, Len(last.mt0) + 1, Len(last.mt))

\* C2: after insert_into_memtable on a batch with base seq and n entries,
\* the i-th entry (from 0) has an insertion tagged seq + i, and the tags are
\* strictly increasing in the order of the insertions.
C2_SequenceNumbersAreBasePlusIndex ==
    Replayed =>
        /\ Len(Issued) = Len(entries)
        /\ \A i \in 1 .. Len(Issued) : Issued[i].seq = seq + (i - 1)
        /\ \A i, j \in 1 .. Len(Issued) : i < j => Issued[i].seq < Issued[j].seq

\* The batch insertions a reader with snapshot q sees: those tagged <= q.
Visible(q) == { i \in 1 .. Len(Issued) : Issued[i].seq <= q }

\* C3 (as stated): after a replay of n >= 1 entries, a reader at any snapshot
\* q sees all n insertions of the batch when q >= the last number assigned,
\* and none of them at every other q.
C3_AllOrNothingAtEverySnapshot ==
    (Replayed /\ Len(entries) >= 1 /\ Len(Issued) >= 1) =>
        \A q \in SequenceNumber :
            IF q >= Issued[Len(Issued)].seq
            THEN Visible(q) = 1 .. Len(entries)
            ELSE Visible(q) = {}

\* C3 (amended): a reader at snapshot q sees exactly the issued insertions i
\* (from 0) with (seq + i) mod 2^SeqBits <= q.  When seq + n - 1 is
\* representable all n insertions are issued and the reader sees none of them
\* for q < seq, all of them for q >= seq + n - 1, and exactly the first
\* q - seq + 1 of them, a part of the batch, for seq <= q < seq + n - 1.
C3_VisibilityIsPrefixOfBatch ==
    Replayed =>
        \A q \in SequenceNumber :
            /\ Visible(q) = { i \in 1 .. Len(Issued) :
                                (seq + (i - 1)) % SeqModulus <= q }
            /\ seq + Len(entries) - 1 <= MaxSeqNum =>
                  /\ Len(Issued) = Len(entries)
                  /\ q < seq => Visible(q) = {}
                  /\ q >= seq + Len(entries) - 1 => Visible(q) = 1 .. Len(entries)
                  /\ (seq <= q /\ q < seq + Len(entries) - 1) =>
                        Visible(q) = 1 .. (q - seq + 1)

\* A batch of two entries with base 1 has been replayed: the snapshot 1 sees
\* the first insertion and not the second.
C3_Witness ==
    /\ Replayed
    /\ seq = 1
    /\ Len(entries) = 2
    /\ Visible(1) = {1}
    /\ Visible(2) = {1, 2}

\* C6: insert_into_memtable issues exactly one insertion per entry, in
\* insertion order: the i-th insertion carries the key of the i-th call, and
\* for a put the Value marker and the value of the call.
C6_OneInsertionPerEntryInOrder ==
    Replayed =>
        /\ Len(Issued) = Len(calls)
        /\ \A i \in 1 .. Len(Issued) :
              /\ Issued[i].key = calls[i].k
              /\ calls[i].op = "put" =>
                    Issued[i].t = "TypeValue" /\ Issued[i].val = calls[i].v

\* C7: every insertion issued for an entry appended by delete(k) carries the
\* key k, the Deletion marker and an empty value, whatever the batch and the
\* memtable held before.
C7_DeleteReplaysAsDeletion ==
    Replayed =>
        \A i \in 1 .. Len(Issued) :
            (i <= Len(calls) /\ calls[i].op = "delete") =>
                /\ Issued[i].t = "TypeDeletion"
                /\ Issued[i].val = <<>>
                /\ Issued[i].key = calls[i].k

\* A delete of a key that the batch put before and that the memtable already
\* held has been replayed.
C7_Witness ==
    /\ Replayed
    /\ Len(last.mt0) = 1
    /\ Len(Issued) = 2
    /\ calls[1].op = "put" /\ calls[1].k = <<97>>
    /\ calls[2].op = "delete" /\ calls[2].k = <<97>>
    /\ Issued[2].t = "TypeDeletion"

\* C10: no call fails: insert_into_memtable returns for every batch and every
\* base sequence number, and so do the other operations.
C10_NoCallPanics == status = "running"

(***************************************************************************)
(* Reading an encoded buffer back, record by record.                       *)
(***************************************************************************)
\* The varint that starts at position p of buf: its value and the position
\* after it; next = 0 when the buffer ends inside it.
RECURSIVE ReadVarint(_, _)
ReadVarint(buf, p) ==
    IF p > Len(buf) THEN [val |-> 0, next |-> 0]
    ELSE IF buf[p] < 128 THEN [val |-> buf[p], next |-> p + 1]
    ELSE LET r == ReadVarint(buf, p + 1)
         IN  [val |-> (buf[p] - 128) + 128 * r.val, next |-> r.next]

\* The records of buf from position p on: tag, key and value of each, and its
\* bytes; a record the buffer ends inside is reported with tag -1.
RECURSIVE ReadRecords(_, _)
ReadRecords(buf, p) ==
    IF p > Len(buf) THEN <<>>
    ELSE LET klen == ReadVarint(buf, p + 1)
             kend == klen.next + klen.val
             vlen == ReadVarint(buf, kend)
             vend == vlen.next + vlen.val
         IN  IF klen.next = 0 \/ kend > Len(buf) + 1
                \/ vlen.next = 0 \/ vend > Len(buf) + 1
             THEN <<[tag |-> -1, key |-> <<>>, val |-> <<>>, bytes |-> <<>>]>>
             ELSE <<[tag |-> buf[p],
                     key |-> SubSeq(buf, klen.next, kend - 1),
                     val |-> SubSeq(buf, vlen.next, vend - 1),
                     bytes |-> SubSeq(buf, p, vend - 1)]>>
                  \o ReadRecords(buf, vend)

\* C8: a put with an empty value stays a value-bearing entry.  encode() writes
\* its record as tag 1, key length, key, value length 0;
\* insert_into_memtable issues it with the Value marker and an empty value;
\* and in an encoded batch the record of put(k, empty) and the record of
\* delete(k) differ in the tag byte and in nothing else.
C8_EmptyValuePutIsNotADelete ==
    /\ last.op = "encode" =>
          LET recs == ReadRecords(last.val, 1)
          IN  /\ Len(recs) = Len(calls)
              /\ \A i \in 1 .. Len(calls) :
                    (calls[i].op = "put" /\ calls[i].v = <<>>) =>
                        /\ recs[i].tag = 1
                        /\ recs[i].bytes =
                              <<1>> \o varint_bytes(Len(calls[i].k))
                                    \o calls[i].k \o <<0>>
                        /\ \A j \in 1 .. Len(calls) :
                              (calls[j].op = "delete" /\ calls[j].k = calls[i].k) =>
                                  /\ recs[j].bytes # recs[i].bytes
                                  /\ recs[j].bytes[1] # recs[i].bytes[1]
                                  /\ Tail(recs[j].bytes) = Tail(recs[i].bytes)
    /\ Replayed =>
          \A i \in 1 .. Len(Issued) :
              (calls[i].op = "put" /\ calls[i].v = <<>>) =>
                  Issued[i].t = "TypeValue" /\ Issued[i].val = <<>>

\* A batch holding put(k, empty) and delete(k) for the same k has been
\* encoded.
C8_Witness ==
    /\ last.op = "encode"
    /\ Len(calls) = 2
    /\ calls[1] = [op |-> "put", k |-> <<97>>, v |-> <<>>]
    /\ calls[2] = [op |-> "delete", k |-> <<97>>, v |-> <<>>]
    /\ last.val = <<1, 1, 97, 0, 0, 1, 97, 0>>

\* Whether the record rec of an encoded batch and the memtable insertion ins
\* describe the same entry.
SameEntry(rec, ins) ==
    /\ rec.key = ins.key
    /\ (rec.tag = 1) = (ins.t = "TypeValue")
    /\ (rec.tag = 0) = (ins.t = "TypeDeletion")
    /\ rec.val = ins.val

\* C9: encode() and insert_into_memtable walk the entries in the same order:
\* on the same batch, the i-th record of the encoded buffer and the i-th
\* insertion issued describe the same entry (key, kind and value), for every
\* insertion issued.
C9_EncodeAndReplaySameOrder ==
    /\ last.op = "encode" =>
          LET recs == ReadRecords(last.val, 1)
              mtab == insert_into_memtable(entries, seq, <<>>, overflow_checks).mt
          IN  /\ Len(mtab) <= Len(recs)
              /\ \A i \in 1 .. Len(mtab) : SameEntry(recs[i], mtab[i])
    /\ Replayed =>
          LET recs == ReadRecords(encode(entries).buf, 1)
          IN  /\ Len(Issued) <= Len(recs)
              /\ \A i \in 1 .. Len(Issued) : SameEntry(recs[i], Issued[i])

\* A batch of a put followed by a delete of another key has been replayed
\* in full.
C9_Witness ==
    /\ Replayed
    /\ Len(Issued) = 2
    /\ calls[1].op = "put" /\ calls[1].v = <<100, 101>>
    /\ calls[2].op = "delete"
    /\ calls[1].k # calls[2].k

(***************************************************************************)
(* Properties of clear, put and delete.                                    *)
(***************************************************************************)
\* The entry the call c appends.
ExpectedEntry(c) == BatchEntry(c.k, IF c.op = "put" THEN Some(c.v) ELSE None)

\* The entries are those of the calls made since the last clear, in order.
EntriesAreCallsSinceClear(es, cs) ==
    /\ Len(es) = Len(cs)
    /\ \A i \in 1 .. Len(cs) : es[i] = ExpectedEntry(cs[i])

\* C11: once clear() has returned, a fresh iterator yields nothing,
\* byte_size() is 0 and encode() is empty, both as computed on the batch and
\* as returned by the next call; a clear() right after a clear() leaves
\* entries and seq as they were; and at every step the batch holds exactly
\* the entries put or deleted since the last clear, so only those are
\* iterated, encoded or replayed.
C11_ClearEmptiesAndIsIdempotent ==
    [][ /\ last'.op = "clear" =>
              /\ entries' = <<>>
              /\ ~next(entries', iter).item.some
              /\ byte_size(entries') = 0
              /\ encode(entries').buf = <<>>
              /\ insert_into_memtable(entries', seq', <<>>, overflow_checks').mt = <<>>
        /\ (last.op = "clear" /\ last'.op = "byte_size") => last'.val = 0
        /\ (last.op = "clear" /\ last'.op = "encode") => last'.val = <<>>
        /\ (last.op = "clear" /\ last'.op = "clear") =>
              entries' = entries /\ seq' = seq /\ last'.dropped = 0
        /\ (last.op = "clear" /\ last'.op \in {"put", "delete"}) =>
              Len(entries') = 1
        /\ EntriesAreCallsSinceClear(entries', calls')
      ]_vars

\* clear() has been called on a batch of two entries.
C11_Witness ==
    /\ last.op = "clear"
    /\ last.dropped = 2
    /\ entries = <<>>

\* C12: put and delete each append exactly one entry, the entry of the call,
\* at the end of the batch and leave every entry recorded before as it was
\* and where it was, also when the key is the key of an earlier entry:
\* after put(k, v1); put(k, v2); delete(k) the batch holds these three
\* entries, in this order.
C12_PutDeleteAppendOnly ==
    [][ /\ last'.op \in {"put", "delete"} =>
              /\ Len(entries') = Len(entries) + 1
              /\ \A i \in 1 .. Len(entries) : entries'[i] = entries[i]
              /\ entries'[Len(entries')] = ExpectedEntry(calls'[Len(calls')])
              /\ last'.op = calls'[Len(calls')].op
        /\ \A k \in ShortKeys, v1 \in ShortVals, v2 \in ShortVals :
              calls' = << [op |-> "put", k |-> k, v |-> v1],
                          [op |-> "put", k |-> k, v |-> v2],
                          [op |-> "delete", k |-> k, v |-> <<>>] >>
              => entries' = << BatchEntry(k, Some(v1)),
                               BatchEntry(k, Some(v2)),
                               BatchEntry(k, None) >>
      ]_vars

\* put(k, v1); put(k, v2); delete(k) has been called with v1 # v2.
C12_Witness ==
    /\ calls = << [op |-> "put", k |-> <<97>>, v |-> <<100, 101>>],
                  [op |-> "put", k |-> <<97>>, v |-> <<>>],
                  [op |-> "delete", k |-> <<97>>, v |-> <<>>] >>
    /\ last.op = "delete"
    /\ Len(entries) = 3
    /\ entries[1].key = entries[2].key /\ entries[2].key = entries[3].key
    /\ entries[1].val # entries[2].val /\ entries[2].val # entries[3].val

(***************************************************************************)
(* Properties of the read-only calls.                                      *)
(***************************************************************************)
ReadOnlyOps == {"byte_size", "encode", "iter", "next", "insert_into_memtable"}

\* Part of C13: a read-only call leaves entries and seq as they were.
ReadOnlyCallsKeepBatch ==
    [][last'.op \in ReadOnlyOps => entries' = entries /\ seq' = seq]_vars

\* Part of C13: an iterator started at any time starts at the first entry
\* and yields the entries in order, all of them before it returns None,
\* whatever the other iterators have consumed and whatever was called before.
FreshIterYieldsAll ==
    [][ /\ last'.op = "iter" =>
              \E i \in 1 .. NumIters :
                  /\ ~iters[i].live
                  /\ iters'[i] = [live |-> TRUE, ix |-> 0,
                                  yielded |-> <<>>, done |-> FALSE]
                  /\ \A j \in (1 .. NumIters) \ {i} : iters'[j] = iters[j]
        /\ \A i \in 1 .. NumIters :
              iters'[i].live =>
                  /\ Len(iters'[i].yielded) <= Len(entries')
                  /\ \A j \in 1 .. Len(iters'[i].yielded) :
                        iters'[i].yielded[j] =
                            SomeItem(entries'[j].key, entries'[j].val)
                  /\ iters'[i].done => Len(iters'[i].yielded) = Len(entries')
      ]_vars

\* Part of C13: a replay that follows a replay of the same batch issues the
\* same sequence numbers, seq, seq + 1, ..., seq + n - 1, as the first.
ReplayTwiceSameNumbers ==
    [][ (Replayed /\ Replayed') =>
            /\ Len(Issued') = Len(Issued)
            /\ \A i \in 1 .. Len(Issued) : Issued'[i].seq = Issued[i].seq
            /\ Len(Issued') = Len(entries)
            /\ \A i \in 1 .. Len(Issued') : Issued'[i].seq = seq + (i - 1)
      ]_vars

\* C13: byte_size, encode, iter, next and insert_into_memtable leave the
\* entries and the base sequence number unchanged; so a fresh iterator
\* started at any time yields the full entry sequence from the first entry,
\* and replaying the same batch twice issues the sequence numbers
\* seq .. seq + n - 1 both times.
C13_ReadOnlyCallsLeaveBatch ==
    /\ ReadOnlyCallsKeepBatch
    /\ FreshIterYieldsAll
    /\ ReplayTwiceSameNumbers

\* C14: clear, put and delete leave the base sequence number unchanged, so
\* after any sequence of put, delete and clear calls insert_into_memtable
\* tags the first entry currently in the batch with the base the batch was
\* created with.
C14_BaseSeqSurvivesMutation ==
    [][ /\ last'.op \in {"put", "delete", "clear"} => seq' = seq
        /\ (Replayed' /\ entries' # <<>>) =>
              /\ Len(Issued') >= 1
              /\ Issued'[1].seq = seq
              /\ Issued'[1].key = entries'[1].key
      ]_vars

C14_Witness ==
    /\ Replayed
    /\ Len(entries) = 2
    /\ entries[1].val = None
    /\ Len(Issued) >= 1
    /\ Issued[1].seq = seq
    /\ seq = MaxSeqNum

(***************************************************************************)
(* The size formula.                                                       *)
(***************************************************************************)
\* The number of 7-bit groups needed to write n: the width of its varint.
VarintWidth(n) ==
    CHOOSE w \in 1 .. 10 :
        /\ n < Pow2(7 * w)
        /\ w > 1 => n >= Pow2(7 * (w - 1))

\* 1 + width(klen) + klen + width(vlen) + vlen, a delete having vlen 0.
ExpectedEntrySize(e) ==
    LET klen == Len(e.key)
        vlen == IF e.val.some THEN Len(e.val.v) ELSE 0
    IN  1 + VarintWidth(klen) + klen + VarintWidth(vlen) + vlen

RECURSIVE ExpectedSize(_)
ExpectedSize(es) ==
    IF es = <<>> THEN 0
    ELSE ExpectedEntrySize(Head(es)) + ExpectedSize(Tail(es))

\* The batch test_write_batch holds after its loop: three puts, two deletes.
TestBatch ==
    << BatchEntry(<<97, 98, 99>>, Some(<<100, 101, 102>>)),
       BatchEntry(<<49, 50, 51>>, Some(<<52, 53, 54>>)),
       BatchEntry(<<120, 120, 120>>, Some(<<121, 121, 121>>)),
       BatchEntry(<<122, 122, 122>>, None),
       BatchEntry(<<48, 49, 48>>, None) >>

\* C15: byte_size() is the sum over the entries of
\* 1 + width(klen) + klen + width(vlen) + vlen, where a delete has vlen 0 and
\* so a one-byte length; it is 0 for an empty batch and 39 for the batch of
\* the unit test.
C15_ByteSizeIsSumOfRecordSizes ==
    /\ byte_size(<<>>) = 0
    /\ \A e \in {entries[i] : i \in 1 .. Len(entries)} :
          ~e.val.some => ExpectedEntrySize(e) = 1 + VarintWidth(Len(e.key))
                                                  + Len(e.key) + 1
    /\ last.op = "byte_size" =>
          /\ last.val = ExpectedSize(entries)
          /\ entries = <<>> => last.val = 0
          /\ entries = TestBatch => last.val = 39

C15_Witness ==
    /\ last.op = "byte_size"
    /\ entries = TestBatch
    /\ last.val = 39

(***************************************************************************)
(* The write cursor of encode.                                             *)
(***************************************************************************)
\* The states encode goes through on the current batch.
EncodeTrace == encode_trace(entries, iter, [buf |-> <<>>, ix |-> 0, ok |-> TRUE])

\* before -> after is a resize by width that grows the buffer by exactly
\* width zero bytes, followed by a varint written into those bytes only.
GrowsAndWritesFresh(before, after, width) ==
    /\ before.ix = Len(before.buf)
    /\ Resize(before.buf, before.ix + width) = before.buf \o Zeros(width)
    /\ after.ok
    /\ Len(after.buf) = Len(before.buf) + width
    /\ SubSeq(after.buf, 1, Len(before.buf)) = before.buf
    /\ after.ix > before.ix
    /\ after.ix <= Len(after.buf)

\* C16: in encode, ix is the length of the buffer at the start of every
\* entry and just before each of the two resize calls (after the tag push
\* and after the key bytes), so each resize grows the buffer by the varint
\* width and never shrinks it, and each varint goes into fresh zero bytes,
\* not over bytes already written.
C16_EncodeCursorIsBufferLength ==
    \A tr \in {EncodeTrace} :
        /\ Len(tr) = Len(entries)
        /\ \A n \in 1 .. Len(tr) : \A t \in {tr[n]} :
              LET e == entries[n]
                  vlen == IF e.val.some THEN Len(e.val.v) ELSE 0
              IN  /\ t[1].ix = Len(t[1].buf)
                  /\ t[2].ix = Len(t[2].buf)
                  /\ t[2].buf = Append(t[1].buf, t[2].buf[Len(t[2].buf)])
                  /\ GrowsAndWritesFresh(t[2], t[3], required_space(Len(e.key)))
                  /\ t[4].ix = Len(t[4].buf)
                  /\ GrowsAndWritesFresh(t[4], t[5], required_space(vlen))
                  /\ t[6].ix = Len(t[6].buf)
        /\ last.op = "encode" =>
              /\ last.ok
              /\ last.val = IF tr = <<>> THEN <<>> ELSE tr[Len(tr)][6].buf

C16_Witness ==
    /\ last.op = "encode"
    /\ last.ok
    /\ Len(entries) = 2
    /\ entries[1] = BatchEntry(LongBytes, Some(<<100, 101>>))
    /\ entries[2] = BatchEntry(<<97>>, None)
    /\ Len(last.val) = 1 + 2 + LongLen + 1 + 2 + 1 + 1 + 1 + 1

(***************************************************************************)
(* The cursor of WriteBatchIter.                                           *)
(***************************************************************************)
\* C17: an iterator's cursor satisfies 0 <= ix <= number of entries; next
\* advances it by exactly one when it yields a pair, reading the entry at
\* the old cursor, which is inside the list, and leaves it unchanged when it
\* returns None; so once an iterator has returned None every later next on
\* it returns None too, the empty batch included.
C17_IterCursorInRange ==
    [][ \A i \in 1 .. NumIters :
          /\ iters'[i].live =>
                /\ iters'[i].ix \in 0 .. Len(entries')
                /\ entries' = <<>> =>
                      iters'[i].ix = 0 /\ iters'[i].yielded = <<>>
          /\ (iters[i].live /\ iters'[i].live) =>
                LET a == iters[i]
                    b == iters'[i]
                IN  /\ Len(b.yielded) \in {Len(a.yielded), Len(a.yielded) + 1}
                    /\ Len(b.yielded) = Len(a.yielded) + 1 =>
                          /\ b.ix = a.ix + 1
                          /\ a.ix \in 0 .. (Len(entries) - 1)
                          /\ last' = [op |-> "next",
                                      item |-> b.yielded[Len(b.yielded)]]
                    /\ Len(b.yielded) = Len(a.yielded) => b.ix = a.ix
                    /\ (b.done /\ ~a.done) =>
                          /\ last' = [op |-> "next", item |-> NoItem]
                          /\ a.ix = Len(entries)
                    /\ a.done => b = a
      ]_vars

C17_Witness ==
    /\ Len(entries) = 2
    /\ last = [op |-> "next", item |-> NoItem]
    /\ iters[1].live /\ iters[1].done /\ iters[1].ix = 2
    /\ iters[2].live /\ ~iters[2].done /\ iters[2].ix = 1

====
